---- MODULE Spec2Model ----
(***************************************************************************)
(* The timeline editor of MapscrollerEditor (src/src/editor/Editor.ts) as  *)
(* a state machine: the editor's fields, the externally owned content      *)
(* objects it reads and writes, and one action per public method, timer    *)
(* tick and user gesture.                                                  *)
(*                                                                         *)
(* Indices (moduleIdx, keyIdx) are 0-based as in the source; sequences     *)
(* are 1-based, so element i of a JS array a is a[i + 1] (see At).         *)
(***************************************************************************)
EXTENDS Integers, Sequences, FiniteSets, TLC

\* ------------------------------------------------------------------ bounds
\* Number of content objects of the host application.
NumContents == 2
\* Times (positions, low, high, keyframe values) range over 0..MaxTime.
MaxTime == 2
\* A stop list grows by alt-click up to this many stops.
MaxStops == 2
\* addContent attaches to a content that already holds this many attachments
\* of the editor no further (reset does not detach, so the count can grow).
MaxAttach == 2
\* Timeline gestures (clicks, drags) in one run of the edit scenario.
MaxGestures == 1
\* Key-ups in the text box in one run of the edit scenario.
MaxKeyUps == 1
\* addContent, removeContent and reset calls in one run of the edit scenario.
MaxApiCalls == 1
\* Clicks in one run of the click scenario.
MaxClicks == 2
\* openEditor calls that wait for the editor window to load at one time.
MaxOpening == 2
MaxKeys == 3
MaxDrags == 2

Ids == 1..NumContents
Times == 0..MaxTime

\* ------------------------------------------------------------ JSON values
\* A JSON object is a function from its keys; EmptyObj is {}.
EmptyObj == [k \in {} |-> 0]

\* getData() of a content whose data has not arrived: undefined.
NoData == [absent |-> TRUE]

\* An InterpolationStop position: a number, or a string "+n" / "-n" that is
\* relative to the start / end edge of the owning content.
Abs(n) == [tag |-> "abs", n |-> n]
FromStart(n) == [tag |-> "+", n |-> n]
FromEnd(n) == [tag |-> "-", n |-> n]

\* The text of the text box: empty, the serialisation of a JSON object, or
\* text that JSON.parse rejects.
EmptyText == [kind |-> "empty"]
InvalidText == [kind |-> "invalid"]
JsonText(obj) == [kind |-> "json", obj |-> obj]

\* No key-up handler installed yet.
NoHandler == [type |-> "none"]

\* Property names, in the key order of the interpolators object.
PropNames == <<"x", "y">>

At(s, i) == s[i + 1]
Has(s, i) == i >= 0 /\ i < Len(s)

\* { ...a, ...b }
Spread(a, b) ==
    [k \in DOMAIN a \cup DOMAIN b |-> IF k \in DOMAIN b THEN b[k] ELSE a[k]]

\* s.splice(i, 1) for a 0-based index i (nothing is removed past the end).
Splice(s, i) ==
    IF Has(s, i)
    THEN [j \in 1..(Len(s) - 1) |-> IF j <= i THEN s[j] ELSE s[j + 1]]
    ELSE s

\* a[i] = v on a JS array: the array grows to length i + 1, holes read as
\* undefined (falsy, FALSE here).
SetAt(s, i, v) ==
    [j \in 1..(IF i + 1 > Len(s) THEN i + 1 ELSE Len(s)) |->
        IF j = i + 1 THEN v ELSE IF j <= Len(s) THEN s[j] ELSE FALSE]

\* --------------------------------------------------------------- variables
VARIABLES
    contents,       \* Editor._contents: the content list
    expandedRows,   \* Editor._expandedRows: expand flag per module index
    rows,           \* Editor._timelineModel.rows
    outline,        \* children of Editor._outlineItemsEl, one node per row
    dirty,          \* Editor._dirty
    cdata,          \* per content: the data blob returned by getData()
    subscribed,     \* per content: times this editor is attached to intervalChanged
    textarea,       \* Editor._textarea.value
    errorMsg,       \* Editor._errorMsg.innerText
    updateButtonHandler, \* Editor._updateButtonHandler: the row and key its closure holds
    rowContents,    \* history: the content list the rows were last built from
    calls,          \* history: contents whose setData ran in the last handler
    event,          \* history: the gesture or key-up the last step handled, if any
    selected,       \* history: the element whose JSON a click or drag last loaded into the text box
    ticked,         \* history: a frame has run since the content list was last changed by a call
    time,           \* the time of Editor._timeline
    position,       \* the position of the scroller (scrollControl.getPosition())
    editorWindow,   \* EditorBridge._editorWindow: "none", "open" or "closed"
    bridgeEditor,   \* EditorBridge._editor is set: the editor the other variables describe
    bridgeContents, \* EditorBridge._contents
    received,       \* history: the last contentsChanged list since construction or reset
    positionAttached, \* the bridge listens to scrollControl.positionChanged
    seekAttached,   \* attachments of the bridge's _onSeeked to Editor.seek
    opening,        \* openEditor calls awaiting _openEditorWindow()
    setTimes,       \* history: the Editor.setTime calls of the bridge in the last step
    setPositions,   \* history: the scrollControl.setPosition calls in the last step
    gestures,       \* history: number of timeline gestures (clicks, drags) so far
    keyUps,         \* history: number of key-ups in the text box so far
    apiCalls        \* history: number of addContent, removeContent and reset calls so far

vars == <<contents, expandedRows, rows, outline, dirty, cdata, subscribed,
          textarea, errorMsg, updateButtonHandler, rowContents, calls, event, selected,
          ticked, time, position, editorWindow, bridgeEditor, bridgeContents, received,
          positionAttached, seekAttached, opening, setTimes, setPositions,
          gestures, keyUps, apiCalls>>

\* No gesture: the last step was a call, a frame, or a notification.
NoEvent == [kind |-> "none"]

\* The bridge, the scroller and what the last step called on them.
bridge == <<position, editorWindow, bridgeEditor, bridgeContents, received, positionAttached,
            seekAttached, opening, setTimes, setPositions>>

\* EditorBridge._contents undefined, and holding a list.
NoList == [defined |-> FALSE, list |-> <<>>]
List(l) == [defined |-> TRUE, list |-> l]

\* Nothing was loaded into the text box yet.
NoSelection == [type |-> "none"]

\* The counters that bound a run.
counters == <<gestures, keyUps, apiCalls>>

\* The text box, its error element and its key-up handler.
ui == <<textarea, errorMsg, updateButtonHandler, selected>>

\* ------------------------------------------------------- content objects
\* The data each content starts with.  Odd contents animate two properties,
\* with stops relative to the start edge, relative to the end edge and
\* absolute; even contents animate none.
InitData(id) ==
    IF id % 2 = 1
    THEN [low |-> 1, high |-> 2,
          interpolators |->
              [x |-> << [position |-> FromStart(0), value |-> 0],
                        [position |-> FromEnd(0), value |-> 1] >>,
               y |-> << [position |-> Abs(1), value |-> 0] >>]]
    ELSE [low |-> 0, high |-> 1, interpolators |-> EmptyObj]

\* content.low, content.high: the interval of the content, which the
\* content derives from its data d.
LowOf(d) == IF d # NoData THEN d.low ELSE 0
HighOf(d) == IF d # NoData THEN d.high ELSE 0

\* The stop lists of the data, by property name.
DataInterpolators(d) ==
    IF d # NoData /\ "interpolators" \in DOMAIN d THEN d.interpolators ELSE EmptyObj

\* ParsedInterpolationStop: the stop with its tag and absolute position.
ParseStop(s, low, high) ==
    Spread(s,
        [type |-> CASE s.position.tag = "abs" -> "absolute"
                    [] s.position.tag = "+" -> "start"
                    [] s.position.tag = "-" -> "end",
         absolutePosition |-> CASE s.position.tag = "abs" -> s.position.n
                                [] s.position.tag = "+" -> low + s.position.n
                                [] s.position.tag = "-" -> high - s.position.n])

\* Names of content.getInterpolators(), in for-in order.
InterpolatorNames(d) ==
    SelectSeq(PropNames, LAMBDA p : p \in DOMAIN DataInterpolators(d))

\* content.getInterpolators()[propertyName].getStops()
GetStops(d, propertyName) ==
    LET stops == DataInterpolators(d)[propertyName]
    IN  [k \in 1..Len(stops) |-> ParseStop(stops[k], LowOf(d), HighOf(d))]

Low(id) == LowOf(cdata[id])
High(id) == HighOf(cdata[id])

\* ------------------------------------------------------------ row building
\* !!this._expandedRows[moduleIdx]
Expanded(exp, moduleIdx) == Has(exp, moduleIdx) /\ At(exp, moduleIdx)

\* Mutant of RowFromContent: the boundary keyframes carry high and low swapped.
RowFromContentSwapped(id, moduleIdx) ==
    [type |-> "module",
     hidden |-> FALSE,
     moduleIdx |-> moduleIdx,
     keyframes |-> << [val |-> High(id), keyIdx |-> 0, type |-> "absolute"],
                      [val |-> Low(id), keyIdx |-> 1, type |-> "absolute"] >>]

RowFromContent(id, moduleIdx) ==
    [type |-> "module",
     hidden |-> FALSE,
     moduleIdx |-> moduleIdx,
     keyframes |-> << [val |-> Low(id), keyIdx |-> 0, type |-> "absolute"],
                      [val |-> High(id), keyIdx |-> 1, type |-> "absolute"] >>]

\* Mutant of RowFromProperty: every property row points at the first module.
RowFromPropertyFirstModule(id, moduleIdx, propertyName) ==
    LET stops == GetStops(cdata[id], propertyName)
    IN  [type |-> "property",
         min |-> Low(id),
         max |-> High(id),
         hidden |-> ~Expanded(expandedRows, moduleIdx),
         moduleIdx |-> 0,
         propertyName |-> propertyName,
         keyframes |-> [k \in 1..Len(stops) |->
                           [val |-> stops[k].absolutePosition,
                            keyIdx |-> k - 1,
                            type |-> stops[k].type]]]

RowFromProperty(id, moduleIdx, propertyName) ==
    LET stops == GetStops(cdata[id], propertyName)
    IN  [type |-> "property",
         min |-> Low(id),
         max |-> High(id),
         hidden |-> ~Expanded(expandedRows, moduleIdx),
         moduleIdx |-> moduleIdx,
         propertyName |-> propertyName,
         keyframes |-> [k \in 1..Len(stops) |->
                           [val |-> stops[k].absolutePosition,
                            keyIdx |-> k - 1,
                            type |-> stops[k].type]]]

\* The rows of one content: its module row, then one row per interpolator.
ContentRows(id, moduleIdx) ==
    LET names == InterpolatorNames(cdata[id])
    IN  <<RowFromContent(id, moduleIdx)>> \o
        [k \in 1..Len(names) |-> RowFromProperty(id, moduleIdx, names[k])]

RECURSIVE RowsFrom(_)
RowsFrom(moduleIdx) ==
    IF moduleIdx >= Len(contents)
    THEN <<>>
    ELSE ContentRows(At(contents, moduleIdx), moduleIdx) \o RowsFrom(moduleIdx + 1)

\* _redrawTimeline: the rows, rebuilt from the content list.
RedrawTimeline == RowsFrom(0)

\* Mutant of RedrawOutline: every node is displayed.
RedrawOutlineAllShown(rs) ==
    [i \in 1..Len(rs) |-> [display |-> TRUE, moduleIdx |-> rs[i].moduleIdx]]

\* _redrawOutline: one node per row; the node keeps the row (its click
\* handler reads row.moduleIdx) and its display style.
RedrawOutline(rs) ==
    [i \in 1..Len(rs) |-> [display |-> ~rs[i].hidden, moduleIdx |-> rs[i].moduleIdx]]

\* ----------------------------------------------------------------- actions
\* The bridge as constructed, before any editor window: it listens to the
\* scroller's positionChanged and to the content manager's contentsChanged.
BridgeInit ==
    /\ time = 0
    /\ position = 0
    /\ editorWindow = "none"
    /\ bridgeEditor = FALSE
    /\ bridgeContents = NoList
    /\ received = NoList
    /\ positionAttached = TRUE
    /\ seekAttached = 0
    /\ opening = 0
    /\ setTimes = <<>>
    /\ setPositions = <<>>

Init ==
    /\ contents = <<>>
    /\ expandedRows = <<>>
    /\ rows = <<>>
    /\ outline = <<>>
    /\ dirty = FALSE
    /\ cdata = [id \in Ids |-> InitData(id)]
    /\ subscribed = [id \in Ids |-> 0]
    /\ textarea = EmptyText
    /\ errorMsg = ""
    /\ updateButtonHandler = NoHandler
    /\ selected = NoSelection
    /\ rowContents = <<>>
    /\ calls = <<>>
    /\ event = NoEvent
    /\ ticked = TRUE
    /\ BridgeInit
    /\ gestures = 0
    /\ keyUps = 0
    /\ apiCalls = 0

InContents(id) == \E i \in 1..Len(contents) : contents[i] = id

\* contents.indexOf(content)
IndexOf(id) == (CHOOSE i \in 1..Len(contents) : contents[i] = id) - 1

\* Mutant of AddContentTo: the includes() test is missing.
AddContentToAgain(id) ==
    /\ subscribed' = [subscribed EXCEPT ![id] = @ + 1]
    /\ contents' = Append(contents, id)
    /\ dirty' = TRUE

\* addContent(content)
AddContentTo(id) ==
    IF InContents(id)
    THEN UNCHANGED <<contents, subscribed, dirty>>
    ELSE /\ subscribed' = [subscribed EXCEPT ![id] = @ + 1]
         /\ contents' = Append(contents, id)
         /\ dirty' = TRUE

AddContent(id) ==
    /\ InContents(id) \/ subscribed[id] < MaxAttach
    /\ AddContentTo(id)
    /\ calls' = <<>>
    /\ event' = NoEvent
    /\ ticked' = FALSE
    /\ UNCHANGED <<expandedRows, rows, outline, cdata, rowContents, ui>>

\* Mutant of RemoveContentFrom: the expand flags are not spliced.
RemoveContentFromKeepingFlags(id) ==
    IF ~InContents(id)
    THEN UNCHANGED <<contents, expandedRows, subscribed, dirty>>
    ELSE LET idx == IndexOf(id)
         IN  /\ subscribed' = [subscribed EXCEPT ![id] = 0]
             /\ contents' = Splice(contents, idx)
             /\ expandedRows' = expandedRows
             /\ dirty' = TRUE

\* removeContent(content)
RemoveContentFrom(id) ==
    IF ~InContents(id)
    THEN UNCHANGED <<contents, expandedRows, subscribed, dirty>>
    ELSE LET idx == IndexOf(id)
         IN  /\ subscribed' = [subscribed EXCEPT ![id] = 0]
             /\ contents' = Splice(contents, idx)
             /\ expandedRows' = Splice(expandedRows, idx)
             /\ dirty' = TRUE

RemoveContent(id) ==
    /\ RemoveContentFrom(id)
    /\ calls' = <<>>
    /\ event' = NoEvent
    /\ ticked' = FALSE
    /\ UNCHANGED <<rows, outline, cdata, rowContents, ui>>

\* reset()
ResetEditor ==
    /\ contents' = <<>>
    /\ expandedRows' = <<>>
    /\ time' = 0
    /\ UNCHANGED <<dirty, subscribed>>

Reset ==
    /\ ResetEditor
    /\ calls' = <<>>
    /\ event' = NoEvent
    /\ ticked' = FALSE
    /\ UNCHANGED <<rows, outline, cdata, rowContents, ui>>

\* content.intervalChanged posted by a content: _onContentsChanged runs once
\* per attachment.
IntervalChanged(id) ==
    /\ subscribed[id] > 0
    /\ dirty' = TRUE
    /\ calls' = <<>>
    /\ event' = NoEvent
    /\ UNCHANGED ticked
    /\ UNCHANGED <<contents, expandedRows, rows, outline, cdata, subscribed, rowContents, ui>>

\* Mutant of RedrawLoop: every frame rebuilds, whatever the dirty flag says.
RedrawLoopEveryFrame ==
    /\ rows' = RedrawTimeline
    /\ outline' = RedrawOutline(rows')
    /\ rowContents' = contents
    /\ dirty' = FALSE

\* One animation frame of _redrawLoop.
RedrawLoop ==
    IF dirty
    THEN /\ rows' = RedrawTimeline
         /\ outline' = RedrawOutline(rows')
         /\ rowContents' = contents
         /\ dirty' = FALSE
    ELSE UNCHANGED <<rows, outline, rowContents, dirty>>

RedrawTick ==
    /\ RedrawLoop
    /\ calls' = <<>>
    /\ event' = NoEvent
    /\ ticked' = TRUE
    /\ UNCHANGED <<contents, expandedRows, cdata, subscribed, ui>>

\* _toggleGroup(moduleIdx): the flag is flipped, then every property row takes
\* the flag of the module row that precedes it, and its outline node with it.
\* The value of the loop variable `expanded` when row i is visited.
ExpandedAtRow(exp, i) ==
    LET mods == {j \in 1..i : rows[j].type = "module"}
    IN  IF mods = {} THEN FALSE
        ELSE LET j == CHOOSE m \in mods : \A n \in mods : n <= m
             IN  Expanded(exp, rows[j].moduleIdx)

\* Mutant of ToggleGroup: the loop variable is not reset per module row, every
\* property row takes the flag of the toggled module.
ToggleGroupOneFlag(moduleIdx) ==
    LET exp == SetAt(expandedRows, moduleIdx, ~Expanded(expandedRows, moduleIdx))
    IN  /\ expandedRows' = exp
        /\ rows' = [i \in 1..Len(rows) |->
                       IF rows[i].type = "property"
                       THEN [rows[i] EXCEPT !.hidden = ~Expanded(exp, moduleIdx)]
                       ELSE rows[i]]
        /\ outline' = [i \in 1..Len(outline) |->
                          IF Has(rows, i - 1) /\ rows[i].type = "property"
                          THEN [outline[i] EXCEPT !.display = Expanded(exp, moduleIdx)]
                          ELSE outline[i]]

ToggleGroup(moduleIdx) ==
    LET exp == SetAt(expandedRows, moduleIdx, ~Expanded(expandedRows, moduleIdx))
    IN  /\ expandedRows' = exp
        /\ rows' = [i \in 1..Len(rows) |->
                       IF rows[i].type = "property"
                       THEN [rows[i] EXCEPT !.hidden = ~ExpandedAtRow(exp, i)]
                       ELSE rows[i]]
        /\ outline' = [i \in 1..Len(outline) |->
                          IF Has(rows, i - 1) /\ rows[i].type = "property"
                          THEN [outline[i] EXCEPT !.display = ExpandedAtRow(exp, i)]
                          ELSE outline[i]]

\* A click on an outline node that is displayed. The event remembers the flags
\* and the hidden state of the rows the click found.
OutlineClick(n) ==
    /\ outline[n].display
    /\ ToggleGroup(outline[n].moduleIdx)
    /\ calls' = <<>>
    /\ event' = [kind |-> "toggle", moduleIdx |-> outline[n].moduleIdx,
                 flags |-> expandedRows,
                 hidden |-> [i \in 1..Len(rows) |-> rows[i].hidden]]
    /\ UNCHANGED ticked
    /\ UNCHANGED <<contents, dirty, cdata, subscribed, rowContents, ui>>

\* ---------------------------------------------------------------- gestures
\* What a gesture handler works on, threaded through the calls it makes.
\* thrown is the message of the exception that ended the handler, "" if none.
HandlerState ==
    [cdata |-> cdata, calls |-> <<>>, textarea |-> textarea, errorMsg |-> errorMsg,
     handler |-> updateButtonHandler, selected |-> selected, thrown |-> ""]

Throw(st, msg) == [st EXCEPT !.thrown = msg]

\* content.setData(data): the content takes the data.
SetData(st, id, d) == [st EXCEPT !.cdata[id] = d, !.calls = Append(@, id)]

\* JSON.stringify(data): undefined for undefined data, which no parser accepts.
Stringify(d) == IF d = NoData THEN InvalidText ELSE JsonText(d)

Without(obj, keys) == [k \in DOMAIN obj \ keys |-> obj[k]]

\* _getContent(moduleIdx) finds a content.
ContentFound(moduleIdx) == Has(contents, moduleIdx)

\* _editContentData(content)
EditContentData(st, id) ==
    [st EXCEPT !.textarea = Stringify(st.cdata[id]),
               !.selected = [type |-> "module", id |-> id]]

\* _getInterpolationStop, then _editKeyframeData(content, propertyName, key)
EditKeyframeData(st, id, propertyName, key) ==
    LET d == st.cdata[id]
        stops == IF propertyName \in DOMAIN DataInterpolators(d)
                 THEN GetStops(d, propertyName) ELSE <<>>
        stop == IF Has(stops, key.keyIdx) THEN At(stops, key.keyIdx) ELSE EmptyObj
    IN  [st EXCEPT !.textarea = JsonText(Without(stop, {"absolutePosition", "type"})),
                   !.selected = [type |-> "property", id |-> id,
                                 propertyName |-> propertyName,
                                 stop |-> Without(stop, {"absolutePosition", "type"})]]

\* _updateHandler(handler): the handler replaces the one installed.
UpdateHandler(st, handler) == [st EXCEPT !.handler = handler]

\* _onModuleClicked(row)
OnModuleClicked(st, row) ==
    IF ~ContentFound(row.moduleIdx)
    THEN Throw(st, "Content not found")
    ELSE UpdateHandler(EditContentData(st, At(contents, row.moduleIdx)),
                       [type |-> row.type, moduleIdx |-> row.moduleIdx])

\* _onPropertyKeyframeClicked(row, key)
OnPropertyKeyframeClicked(st, row, key) ==
    IF ~ContentFound(row.moduleIdx)
    THEN Throw(st, "Content not found")
    ELSE UpdateHandler(
             EditKeyframeData(st, At(contents, row.moduleIdx), row.propertyName, key),
             [type |-> row.type, moduleIdx |-> row.moduleIdx,
              propertyName |-> row.propertyName, keyIdx |-> key.keyIdx])

\* _onEmptyClick()
OnEmptyClick(st) == [st EXCEPT !.textarea = EmptyText]

\* Mutant of AbsoluteToRelative: both edges are measured from the start.
AbsoluteToRelativeFromLow(d, key) ==
    CASE key.type = "absolute" -> Abs(key.val)
      [] key.type = "start" -> FromStart(key.val - LowOf(d))
      [] key.type = "end" -> FromEnd(key.val - LowOf(d))

\* _absoluteToRelative(content, key) for a content with data d
AbsoluteToRelative(d, key) ==
    CASE key.type = "absolute" -> Abs(key.val)
      [] key.type = "start" -> FromStart(key.val - LowOf(d))
      [] key.type = "end" -> FromEnd(HighOf(d) - key.val)

\* Mutant of UpdateModuleKeyframePosition: the boundary test is inverted.
UpdateModuleKeyframePositionInverted(st, row, key) ==
    IF ~ContentFound(row.moduleIdx) THEN Throw(st, "Content not found")
    ELSE LET id == At(contents, row.moduleIdx)
             d == st.cdata[id]
         IN  IF d = NoData THEN Throw(st, "Module data not yet present")
             ELSE OnModuleClicked(
                      SetData(st, id,
                          [d EXCEPT ![IF key.keyIdx = 0 THEN "high" ELSE "low"] = key.val]),
                      row)

\* _updateModuleKeyframePosition(row, key)
UpdateModuleKeyframePosition(st, row, key) ==
    IF ~ContentFound(row.moduleIdx) THEN Throw(st, "Content not found")
    ELSE LET id == At(contents, row.moduleIdx)
             d == st.cdata[id]
         IN  IF d = NoData THEN Throw(st, "Module data not yet present")
             ELSE OnModuleClicked(
                      SetData(st, id,
                          [d EXCEPT ![IF key.keyIdx = 0 THEN "low" ELSE "high"] = key.val]),
                      row)

\* _updatePropertyKeyframePosition(row, key)
UpdatePropertyKeyframePosition(st, row, key) ==
    IF ~ContentFound(row.moduleIdx) THEN Throw(st, "Content not found")
    ELSE LET id == At(contents, row.moduleIdx)
             d == st.cdata[id]
             its == DataInterpolators(d)
         IN  IF d = NoData THEN Throw(st, "Module data not yet present")
             ELSE IF row.propertyName \notin DOMAIN its \/ Len(its[row.propertyName]) = 0
             THEN Throw(st, "Property not found")
             ELSE IF ~Has(its[row.propertyName], key.keyIdx)
             THEN Throw(st, "TypeError")
             ELSE OnPropertyKeyframeClicked(
                      SetData(st, id,
                          [d EXCEPT !.interpolators[row.propertyName][key.keyIdx + 1].position =
                                        AbsoluteToRelative(d, key)]),
                      row, key)

\* _processDragElement(e)
ProcessDragElement(st, e) ==
    IF e.row.type = "module"
    THEN UpdateModuleKeyframePosition(st, e.row, e.key)
    ELSE UpdatePropertyKeyframePosition(st, e.row, e.key)

\* d.elements.forEach(...): an exception ends the loop.
RECURSIVE ForEachDragElement(_, _, _)
ForEachDragElement(st, elements, i) ==
    IF i > Len(elements) \/ st.thrown # ""
    THEN st
    ELSE ForEachDragElement(ProcessDragElement(st, elements[i]), elements, i + 1)

\* Mutant of RemoveKeyframe: the last stop is removed, whatever keyIdx.
RemoveKeyframeLast(st, moduleIdx, propertyName, keyIdx) ==
    IF ~ContentFound(moduleIdx) THEN Throw(st, "Content not found")
    ELSE LET id == At(contents, moduleIdx)
             d == st.cdata[id]
             its == DataInterpolators(d)
         IN  IF d = NoData THEN Throw(st, "Module data not yet present")
             ELSE IF propertyName \notin DOMAIN its \/ Len(its[propertyName]) = 0
             THEN Throw(st, "Property not found")
             ELSE SetData(st, id,
                      [d EXCEPT !.interpolators[propertyName] = SubSeq(@, 1, Len(@) - 1)])

\* _removeKeyframe(moduleIdx, propertyName, keyIdx)
RemoveKeyframe(st, moduleIdx, propertyName, keyIdx) ==
    IF ~ContentFound(moduleIdx) THEN Throw(st, "Content not found")
    ELSE LET id == At(contents, moduleIdx)
             d == st.cdata[id]
             its == DataInterpolators(d)
         IN  IF d = NoData THEN Throw(st, "Module data not yet present")
             ELSE IF propertyName \notin DOMAIN its \/ Len(its[propertyName]) = 0
             THEN Throw(st, "Property not found")
             ELSE SetData(st, id,
                      [d EXCEPT !.interpolators[propertyName] = Splice(@, keyIdx)])

\* Mutant of AddKeyframe: the stop is put in front of the list.
AddKeyframeInFront(st, moduleIdx, propertyName, key) ==
    IF ~ContentFound(moduleIdx) THEN Throw(st, "Content not found")
    ELSE LET id == At(contents, moduleIdx)
             d == st.cdata[id]
             its == DataInterpolators(d)
             stops == IF propertyName \in DOMAIN its THEN its[propertyName] ELSE <<>>
         IN  IF d = NoData THEN Throw(st, "Module data not yet present")
             ELSE SetData(st, id,
                      Spread(d, [interpolators |->
                          Spread(its, [p \in {propertyName} |-> <<key>> \o stops])]))

\* _addKeyframe(moduleIdx, propertyName, key)
AddKeyframe(st, moduleIdx, propertyName, key) ==
    IF ~ContentFound(moduleIdx) THEN Throw(st, "Content not found")
    ELSE LET id == At(contents, moduleIdx)
             d == st.cdata[id]
             its == DataInterpolators(d)
             stops == IF propertyName \in DOMAIN its THEN its[propertyName] ELSE <<>>
         IN  IF d = NoData THEN Throw(st, "Module data not yet present")
             ELSE SetData(st, id,
                      Spread(d, [interpolators |->
                          Spread(its, [p \in {propertyName} |-> Append(stops, key)])]))

\* Mutant of UpdateModuleData: the spread is the other way round.
UpdateModuleDataKeepsOld(st, id, data) ==
    LET contentData == st.cdata[id]
        merged == Spread(data, contentData)
    IN  IF contentData = NoData THEN Throw(st, "Module data not yet present")
        ELSE IF Stringify(merged) = Stringify(contentData) THEN st
        ELSE SetData(st, id, merged)

\* _updateModuleData(content, data): an async function, so what it throws
\* rejects its promise and is not thrown to the caller.
UpdateModuleData(st, id, data) ==
    LET contentData == st.cdata[id]
        merged == Spread(contentData, data)
    IN  IF contentData = NoData THEN Throw(st, "Module data not yet present")
        ELSE IF Stringify(merged) = Stringify(contentData) THEN st
        ELSE SetData(st, id, merged)

\* Mutant of UpdateKeyframeData: the merged stop is written one place early.
UpdateKeyframeDataOffByOne(st, id, propertyName, keyIdx, newData) ==
    LET contentData == st.cdata[id]
        its == DataInterpolators(contentData)
    IN  IF contentData = NoData THEN Throw(st, "Module data not yet present")
        ELSE IF propertyName \notin DOMAIN its THEN Throw(st, "Property not found")
        ELSE IF ~Has(its[propertyName], keyIdx) THEN Throw(st, "Keyframe not found")
        ELSE SetData(st, id,
                 [contentData EXCEPT
                      !.interpolators[propertyName][IF keyIdx = 0 THEN 1 ELSE keyIdx] =
                          Spread(its[propertyName][keyIdx + 1], newData)])

\* _updateKeyframeData(content, propertyName, keyIdx, newData): async as well.
UpdateKeyframeData(st, id, propertyName, keyIdx, newData) ==
    LET contentData == st.cdata[id]
        its == DataInterpolators(contentData)
    IN  IF contentData = NoData THEN Throw(st, "Module data not yet present")
        ELSE IF propertyName \notin DOMAIN its THEN Throw(st, "Property not found")
        ELSE IF ~Has(its[propertyName], keyIdx) THEN Throw(st, "Keyframe not found")
        ELSE SetData(st, id,
                 [contentData EXCEPT !.interpolators[propertyName][keyIdx + 1] =
                                         Spread(@, newData)])

\* _onJsonChanged(row, key), with the text of the text box
OnJsonChanged(st, h) ==
    IF ~ContentFound(h.moduleIdx) THEN Throw(st, "Content not found")
    ELSE LET id == At(contents, h.moduleIdx)
             cleared == [st EXCEPT !.errorMsg = ""]
         IN  IF st.textarea.kind # "json"
             THEN [cleared EXCEPT !.errorMsg = "SyntaxError"]
             ELSE IF h.type = "module"
             THEN UpdateModuleData(cleared, id, st.textarea.obj)
             ELSE UpdateKeyframeData(cleared, id, h.propertyName, h.keyIdx,
                                     st.textarea.obj)

\* The handler's effects become the state.
Apply(st) ==
    /\ cdata' = st.cdata
    /\ calls' = st.calls
    /\ textarea' = st.textarea
    /\ errorMsg' = st.errorMsg
    /\ updateButtonHandler' = st.handler
    /\ selected' = st.selected

\* The rows a gesture can hit: the timeline draws no hidden row.
Visible == {r \in 1..Len(rows) : ~rows[r].hidden}

\* The values the timeline lets a keyframe of row r be dragged to: a property
\* row carries the interval of its content as min and max.
DragVals(r) ==
    IF rows[r].type = "property"
    THEN {v \in Times : rows[r].min <= v /\ v <= rows[r].max}
    ELSE Times

\* One dragged element: keyframe k of row r, moved to v.
DragElements ==
    {e \in [row : Visible, key : 1..MaxStops, val : Times] :
        /\ e.key <= Len(rows[e.row].keyframes)
        /\ e.val \in DragVals(e.row)}

\* The elements of one drag event: one keyframe, or two distinct keyframes of
\* rows of the same module moved by the same offset (a boundary with a stop,
\* both boundaries, two stops).
DragOffset(e) == e.val - rows[e.row].keyframes[e.key].val

DragEvents ==
    {<<e>> : e \in DragElements} \cup
    {p \in DragElements \X DragElements :
        /\ <<p[1].row, p[1].key>> # <<p[2].row, p[2].key>>
        /\ rows[p[1].row].moduleIdx = rows[p[2].row].moduleIdx
        /\ DragOffset(p[1]) = DragOffset(p[2])}

\* The timeline moves the dragged keyframes of its model before it reports.
DraggedRows(d) ==
    [r \in 1..Len(rows) |->
        [rows[r] EXCEPT !.keyframes =
            [k \in 1..Len(rows[r].keyframes) |->
                IF \E i \in 1..Len(d) : d[i].row = r /\ d[i].key = k
                THEN [rows[r].keyframes[k] EXCEPT !.val =
                         d[CHOOSE i \in 1..Len(d) : d[i].row = r /\ d[i].key = k].val]
                ELSE rows[r].keyframes[k]]]]

\* _onDrag(d), _onDragFinished(d)
OnDrag(d) ==
    LET moved == DraggedRows(d)
        elements == [i \in 1..Len(d) |->
                        [row |-> moved[d[i].row], key |-> moved[d[i].row].keyframes[d[i].key]]]
    IN  /\ rows' = moved
        /\ Apply(ForEachDragElement(HandlerState, elements, 1))

Drag(d) ==
    /\ OnDrag(d)
    /\ event' = [kind |-> "drag", d |-> d]
    /\ UNCHANGED ticked
    /\ UNCHANGED <<contents, expandedRows, outline, dirty, subscribed, rowContents>>

\* A click event of the timeline: the row under the pointer, the keyframe hit
\* (0 for none), whether a group was hit, whether anything was hit at all
\* (target), the alt key and the time under the pointer (read by the alt-click
\* that hits nothing only, 0 otherwise).
ClickEvents ==
    {c \in [row : Visible, key : 0..MaxStops, group : BOOLEAN, target : BOOLEAN,
            alt : BOOLEAN, val : Times] :
        /\ c.key <= Len(rows[c.row].keyframes)
        /\ ~c.target => (c.key = 0 /\ ~c.group)
        /\ (c.target \/ ~c.alt) => c.val = 0}

\* _onMouseDown(d)
OnMouseDown(st, c) ==
    LET r == rows[c.row]
    IN  IF ~c.target
        THEN IF ~c.alt \/ r.type # "property"
             THEN OnEmptyClick(st)
             ELSE AddKeyframe(st, r.moduleIdx, r.propertyName,
                              [position |-> Abs(c.val), value |-> 0])
        ELSE IF r.type = "module"
        THEN IF c.key # 0 \/ c.group THEN OnModuleClicked(st, r) ELSE OnEmptyClick(st)
        ELSE IF c.key # 0
        THEN IF c.alt
             THEN RemoveKeyframe(st, r.moduleIdx, r.propertyName, r.keyframes[c.key].keyIdx)
             ELSE OnPropertyKeyframeClicked(st, r, r.keyframes[c.key])
        ELSE st

\* The alt-click that adds a stop is taken while the list has room.
ClickInBounds(c) ==
    LET r == rows[c.row]
    IN  (~c.target /\ c.alt /\ r.type = "property" /\ ContentFound(r.moduleIdx)) =>
            LET its == DataInterpolators(cdata[At(contents, r.moduleIdx)])
            IN  r.propertyName \in DOMAIN its => Len(its[r.propertyName]) < MaxStops

MouseDown(c) ==
    /\ ClickInBounds(c)
    /\ Apply(OnMouseDown(HandlerState, c))
    /\ event' = [kind |-> "click", c |-> c]
    /\ UNCHANGED ticked
    /\ UNCHANGED <<contents, expandedRows, rows, outline, dirty, subscribed, rowContents>>

\* What the user types into the text box before a key-up.
TypedObjects ==
    {EmptyObj, [low |-> 1], [high |-> 1], [value |-> 1], [position |-> Abs(0)],
     [interpolators |-> [y |-> << [position |-> Abs(0), value |-> 0] >>]]}

TypedTexts == {InvalidText} \cup {JsonText(o) : o \in TypedObjects}

\* A key-up in the text box, whose text is now t: the installed handler runs.
KeyUp(t) ==
    LET st == [HandlerState EXCEPT !.textarea = t]
    IN  /\ Apply(IF updateButtonHandler = NoHandler THEN st
                 ELSE OnJsonChanged(st, updateButtonHandler))
        /\ event' = [kind |-> "keyup", t |-> t]
        /\ UNCHANGED ticked
        /\ UNCHANGED <<contents, expandedRows, rows, outline, dirty, subscribed, rowContents>>

\* -------------------------------------------------------------- arrow keys
\* The shifts _onKeyPress passes to _expandTimeline for ArrowRight, ArrowLeft.
ArrowRightShift == 100
ArrowLeftShift == 0 - ArrowRightShift

\* Mutant of Shifted: the shifted value is not clamped at the current time.
ShiftedUnclamped(v, value, currentTime) ==
    IF v > currentTime THEN v + value ELSE v

\* if (v > currentTime) v = Math.max(v + value, currentTime)
Shifted(v, value, currentTime) ==
    IF v > currentTime
    THEN IF v + value > currentTime THEN v + value ELSE currentTime
    ELSE v

\* The body of the forEach of _expandTimeline on the data d of one content:
\* low, high and the numeric stop positions are shifted, edge-relative
\* (string) positions and all other fields are left alone.
ExpandData(d, value, currentTime) ==
    [f \in DOMAIN d |->
        IF f \in {"low", "high"}
        THEN Shifted(d[f], value, currentTime)
        ELSE IF f = "interpolators"
        THEN [p \in DOMAIN d[f] |->
                 [k \in 1..Len(d[f][p]) |->
                     LET s == d[f][p][k]
                     IN  IF s.position.tag # "abs" THEN s
                         ELSE [s EXCEPT !.position =
                                  Abs(Shifted(s.position.n, value, currentTime))]]]
        ELSE d[f]]

\* this._contents.forEach(...) of _expandTimeline, from the content at position
\* i on: a content without data is skipped, any other gets setData.
RECURSIVE ExpandContents(_, _, _)
ExpandContents(st, value, i) ==
    IF i > Len(contents) THEN st
    ELSE LET id == contents[i]
             d == st.cdata[id]
         IN  ExpandContents(IF d = NoData THEN st
                            ELSE SetData(st, id, ExpandData(d, value, time)),
                            value, i + 1)

\* _expandTimeline(value), at the current time of the timeline
ExpandTimeline(st, value) == ExpandContents(st, value, 1)

\* The keys a key press can carry (Delete stands for any key without a case)
\* and the elements that can have the focus.
Keys == {"ArrowRight", "ArrowLeft", "Delete"}
Targets == {"textarea", "body"}

\* Mutant of OnKeyPress: the target of the key press is not looked at.
OnKeyPressAnyTarget(st, key, target) ==
    CASE key = "ArrowRight" -> ExpandTimeline(st, ArrowRightShift)
      [] key = "ArrowLeft" -> ExpandTimeline(st, ArrowLeftShift)
      [] OTHER -> st

\* Mutant of OnKeyPress: ArrowLeft shifts the way ArrowRight does.
OnKeyPressSameSign(st, key, target) ==
    IF target = "textarea" THEN st
    ELSE CASE key = "ArrowRight" -> ExpandTimeline(st, ArrowRightShift)
           [] key = "ArrowLeft" -> ExpandTimeline(st, ArrowRightShift)
           [] OTHER -> st

\* _onKeyPress(e)
OnKeyPress(st, key, target) ==
    IF target = "textarea" THEN st
    ELSE CASE key = "ArrowRight" -> ExpandTimeline(st, ArrowRightShift)
           [] key = "ArrowLeft" -> ExpandTimeline(st, ArrowLeftShift)
           [] OTHER -> st

\* A key goes down in the editor window.  The event remembers the data and
\* the time the key press found.
KeyPress(key, target) ==
    /\ Apply(OnKeyPress(HandlerState, key, target))
    /\ event' = [kind |-> "keydown", key |-> key, target |-> target,
                 before |-> cdata, time |-> time]
    /\ UNCHANGED ticked
    /\ UNCHANGED <<contents, expandedRows, rows, outline, dirty, subscribed, rowContents>>

\* The times the timeline can be set to while keys are pressed.
KeyTimes == Times \cup {t + ArrowRightShift : t \in Times}

\* setTime(currentTime)
SetTime(currentTime) ==
    /\ time' = currentTime
    /\ calls' = <<>>
    /\ event' = NoEvent
    /\ UNCHANGED ticked
    /\ UNCHANGED <<contents, expandedRows, rows, outline, dirty, cdata, subscribed,
                   rowContents, ui>>

\* The host application gives a content other data (the data is owned by
\* the host; the editor is one of its writers).
DataFamily(id) ==
    {InitData(id), NoData,
     [low |-> 1, high |-> 1,
      interpolators |-> [y |-> << [position |-> FromEnd(1), value |-> 0],
                                  [position |-> Abs(0), value |-> 1] >>]]}

HostSetData(id, d) ==
    /\ cdata[id] # d
    /\ cdata' = [cdata EXCEPT ![id] = d]
    /\ calls' = <<>>
    /\ event' = NoEvent
    /\ UNCHANGED <<contents, expandedRows, rows, outline, dirty, subscribed,
                   rowContents, ticked, ui>>

\* ------------------------------------------------------------------ bridge
\* Editor._onTimeChanged(d): the values posted on Editor.seek for a time change
\* of the timeline with the given source.
OnTimeChanged(source, val) == IF source # "user" THEN <<>> ELSE <<val>>

\* Editor.seek.post(val) for each val of seeks: _onSeeked runs once per
\* attachment and calls scrollControl.setPosition(val).
OnSeeked(seeks) ==
    [i \in 1..(Len(seeks) * seekAttached) |-> seeks[((i - 1) \div seekAttached) + 1]]

\* contents.forEach((c) => editor.addContent(c)) on a content list cts.
RECURSIVE LoadInto(_, _, _)
LoadInto(cts, list, i) ==
    IF i > Len(list) THEN cts
    ELSE LoadInto(IF \E j \in 1..Len(cts) : cts[j] = list[i]
                  THEN cts ELSE Append(cts, list[i]),
                  list, i + 1)

\* _loadContents(list) on an editor with content list cts, attachments sub
\* and dirty flag d.
LoadContents(cts, sub, d, list) ==
    LET loaded == LoadInto(cts, list, 1)
        added == {loaded[j] : j \in (Len(cts) + 1)..Len(loaded)}
    IN  /\ \A id \in added : sub[id] < MaxAttach
        /\ contents' = loaded
        /\ subscribed' = [id \in Ids |-> sub[id] + IF id \in added THEN 1 ELSE 0]
        /\ dirty' = (d \/ added # {})

\* openEditor() up to its await: a window that is open is focused, otherwise
\* the call waits for the window named 'editor' to load.
OpenEditor ==
    /\ IF editorWindow = "open"
       THEN UNCHANGED opening
       ELSE opening < MaxOpening /\ opening' = opening + 1
    /\ calls' = <<>>
    /\ event' = NoEvent
    /\ setTimes' = <<>>
    /\ setPositions' = <<>>
    /\ UNCHANGED <<contents, expandedRows, rows, outline, dirty, cdata, subscribed, ui,
                   rowContents, ticked, time, position, editorWindow, bridgeEditor,
                   bridgeContents, received, positionAttached, seekAttached>>

\* The window has loaded, with the editor its page constructs: every waiting
\* openEditor call resumes in turn, before any other task runs.  Each takes
\* the window and its editor, attaches _onSeeked to Editor.seek, sets the
\* editor's time and loads the contents the bridge holds.
WindowLoaded ==
    /\ opening > 0
    /\ editorWindow' = "open"
    /\ bridgeEditor' = TRUE
    /\ seekAttached' = opening
    /\ opening' = 0
    /\ time' = position
    /\ setTimes' = [i \in 1..opening |-> position]
    /\ setPositions' = OnSeeked(OnTimeChanged("setTime", position))
    /\ expandedRows' = <<>>
    /\ rows' = <<>>
    /\ outline' = <<>>
    /\ rowContents' = <<>>
    /\ textarea' = EmptyText
    /\ errorMsg' = ""
    /\ updateButtonHandler' = NoHandler
    /\ selected' = NoSelection
    /\ LoadContents(<<>>, [id \in Ids |-> 0], FALSE,
                    IF bridgeContents.defined THEN bridgeContents.list ELSE <<>>)
    /\ calls' = <<>>
    /\ event' = NoEvent
    /\ ticked' = ~dirty'
    /\ UNCHANGED <<cdata, position, bridgeContents, received, positionAttached>>

\* closeEditor()
CloseEditor ==
    /\ positionAttached' = FALSE
    /\ editorWindow' = IF editorWindow = "none" THEN "none" ELSE "closed"
    /\ calls' = <<>>
    /\ event' = NoEvent
    /\ setTimes' = <<>>
    /\ setPositions' = <<>>
    /\ UNCHANGED <<contents, expandedRows, rows, outline, dirty, cdata, subscribed, ui,
                   rowContents, ticked, time, position, bridgeEditor, bridgeContents, received,
                   seekAttached, opening>>

\* The user closes the editor window.
WindowClosed ==
    /\ editorWindow = "open"
    /\ editorWindow' = "closed"
    /\ calls' = <<>>
    /\ event' = NoEvent
    /\ setTimes' = <<>>
    /\ setPositions' = <<>>
    /\ UNCHANGED <<contents, expandedRows, rows, outline, dirty, cdata, subscribed, ui,
                   rowContents, ticked, time, position, bridgeEditor, bridgeContents, received,
                   positionAttached, seekAttached, opening>>

\* EditorBridge.reset()
BridgeReset ==
    /\ bridgeContents' = NoList
    /\ received' = NoList
    /\ IF bridgeEditor
       THEN ResetEditor /\ ticked' = FALSE
       ELSE UNCHANGED <<contents, expandedRows, time, dirty, subscribed, ticked>>
    /\ calls' = <<>>
    /\ event' = NoEvent
    /\ setTimes' = <<>>
    /\ setPositions' = <<>>
    /\ UNCHANGED <<rows, outline, cdata, ui, rowContents, position, editorWindow,
                   bridgeEditor, positionAttached, seekAttached, opening>>

\* Mutant of SetContents: a list that arrives while no editor is open is dropped.
SetContentsWhenOpen(list) ==
    /\ received' = List(list)
    /\ IF bridgeEditor
       THEN /\ bridgeContents' = List(list)
            /\ LoadContents(contents, subscribed, dirty, list) /\ ticked' = FALSE
       ELSE UNCHANGED <<bridgeContents, contents, subscribed, dirty, ticked>>
    /\ calls' = <<>>
    /\ event' = [kind |-> "contentsChanged", list |-> list]
    /\ setTimes' = <<>>
    /\ setPositions' = <<>>
    /\ UNCHANGED <<expandedRows, rows, outline, cdata, ui, rowContents, time, position,
                   editorWindow, bridgeEditor, positionAttached, seekAttached, opening>>

\* contentManager.contentsChanged posts list: _setContents(list)
SetContents(list) ==
    /\ bridgeContents' = List(list)
    /\ received' = List(list)
    /\ IF bridgeEditor
       THEN LoadContents(contents, subscribed, dirty, list) /\ ticked' = FALSE
       ELSE UNCHANGED <<contents, subscribed, dirty, ticked>>
    /\ calls' = <<>>
    /\ event' = [kind |-> "contentsChanged", list |-> list]
    /\ setTimes' = <<>>
    /\ setPositions' = <<>>
    /\ UNCHANGED <<expandedRows, rows, outline, cdata, ui, rowContents, time, position,
                   editorWindow, bridgeEditor, positionAttached, seekAttached, opening>>

\* scrollControl.positionChanged posts t: the listener of the constructor runs
\* while attached, and the editor's setTime reaches _onTimeChanged with the
\* source of the setTime method.
PositionChanged(t) ==
    /\ position' = t
    /\ IF positionAttached /\ bridgeEditor
       THEN /\ time' = t
            /\ setTimes' = <<t>>
            /\ setPositions' = OnSeeked(OnTimeChanged("setTime", t))
       ELSE /\ UNCHANGED time
            /\ setTimes' = <<>>
            /\ setPositions' = <<>>
    /\ calls' = <<>>
    /\ event' = [kind |-> "positionChanged", t |-> t]
    /\ UNCHANGED <<contents, expandedRows, rows, outline, dirty, cdata, subscribed, ui,
                   rowContents, ticked, editorWindow, bridgeEditor, bridgeContents, received,
                   positionAttached, seekAttached, opening>>

\* The user moves the time of the timeline in the open editor window to t:
\* _onTimeChanged posts the seek, each attachment of _onSeeked sets the
\* position of the scroller, and the scroller posts positionChanged for each.
UserSeek(t) ==
    /\ editorWindow = "open"
    /\ bridgeEditor
    /\ time' = t
    /\ setPositions' = OnSeeked(OnTimeChanged("user", t))
    /\ position' = IF setPositions' = <<>> THEN position ELSE t
    /\ setTimes' = IF positionAttached
                   THEN [i \in 1..Len(setPositions') |-> t]
                   ELSE <<>>
    /\ calls' = <<>>
    /\ event' = [kind |-> "seek", t |-> t]
    /\ UNCHANGED <<contents, expandedRows, rows, outline, dirty, cdata, subscribed, ui,
                   rowContents, ticked, editorWindow, bridgeEditor, bridgeContents, received,
                   positionAttached, seekAttached, opening>>

\* ---------------------------------------------------------- specifications
\* The view: the content list, the frames, the outline and the host's data.
NextView ==
    \/ \E id \in Ids : AddContent(id) /\ UNCHANGED <<counters, bridge, time>>
    \/ \E id \in Ids : RemoveContent(id) /\ UNCHANGED <<counters, bridge, time>>
    \/ Reset /\ UNCHANGED <<counters, bridge>>
    \/ \E id \in Ids : IntervalChanged(id) /\ UNCHANGED <<counters, bridge, time>>
    \/ RedrawTick /\ UNCHANGED <<counters, bridge, time>>
    \/ \E n \in 1..Len(outline) : OutlineClick(n) /\ UNCHANGED <<counters, bridge, time>>
    \/ \E id \in Ids : \E d \in DataFamily(id) : HostSetData(id, d) /\ UNCHANGED <<counters, bridge, time>>

SpecView == Init /\ [][NextView]_vars

\* The edit scenario starts from an editor that has drawn its contents: the
\* contents were added in some order, a frame has run, and groups were toggled.
\* The data of the last content may not have arrived yet.
ContentLists ==
    {c \in UNION {[1..n -> Ids] : n \in 1..NumContents} :
        \A i, j \in 1..Len(c) : c[i] = c[j] => i = j}

InitEdit ==
    /\ contents \in ContentLists
    /\ expandedRows \in [1..Len(contents) -> BOOLEAN]
    /\ cdata \in {[id \in Ids |-> InitData(id)],
                  [id \in Ids |-> IF id = NumContents THEN NoData ELSE InitData(id)]}
    /\ rows = RedrawTimeline
    /\ outline = RedrawOutline(rows)
    /\ dirty = FALSE
    /\ subscribed = [id \in Ids |-> IF InContents(id) THEN 1 ELSE 0]
    /\ textarea = EmptyText
    /\ errorMsg = ""
    /\ updateButtonHandler = NoHandler
    /\ selected = NoSelection
    /\ rowContents = contents
    /\ calls = <<>>
    /\ event = NoEvent
    /\ ticked = TRUE
    /\ BridgeInit
    /\ gestures = 0
    /\ keyUps = 0
    /\ apiCalls = 0

\* A counted as a timeline gesture, a key-up, a call.
AsGesture(A) ==
    /\ A
    /\ gestures' = gestures + 1
    /\ UNCHANGED <<keyUps, apiCalls, bridge, time>>

AsKeyUp(A) ==
    /\ A
    /\ keyUps' = keyUps + 1
    /\ UNCHANGED <<gestures, apiCalls, bridge, time>>

AsCall(A) ==
    /\ apiCalls < MaxApiCalls
    /\ A
    /\ apiCalls' = apiCalls + 1
    /\ UNCHANGED <<gestures, keyUps, bridge>>

NextEdit ==
    \/ /\ gestures < MaxGestures
       /\ \E d \in DragEvents : AsGesture(Drag(d))
    \/ /\ gestures < MaxGestures
       /\ \E c \in ClickEvents : AsGesture(MouseDown(c))
    \/ /\ keyUps < MaxKeyUps
       /\ \E t \in TypedTexts \cup {textarea} : AsKeyUp(KeyUp(t))
    \/ /\ apiCalls < MaxApiCalls
       /\ \E id \in Ids : AsCall(AddContent(id) /\ UNCHANGED time)
    \/ /\ apiCalls < MaxApiCalls
       /\ \E id \in Ids : AsCall(RemoveContent(id) /\ UNCHANGED time)
    \/ AsCall(Reset)
    \/ \E id \in Ids : IntervalChanged(id) /\ UNCHANGED <<counters, bridge, time>>
    \/ RedrawTick /\ UNCHANGED <<counters, bridge, time>>

SpecEdit == InitEdit /\ [][NextEdit]_vars

\* The click scenario: clicks on the rows of a drawn editor, and key-ups.
NextClicks ==
    \/ /\ gestures < MaxClicks
       /\ \E c \in ClickEvents : AsGesture(MouseDown(c))
    \/ /\ keyUps < MaxKeyUps
       /\ \E t \in TypedTexts \cup {textarea} : AsKeyUp(KeyUp(t))

SpecClicks == InitEdit /\ [][NextClicks]_vars

\* The key scenario: arrow keys on a drawn editor whose time is set, with the
\* frames and the contents' interval events.
NextKeys ==
    \/ /\ gestures < MaxKeys
       /\ \E key \in Keys : \E target \in Targets : AsGesture(KeyPress(key, target))
    \/ \E t \in KeyTimes : SetTime(t) /\ UNCHANGED <<counters, bridge>>
    \/ \E id \in Ids : IntervalChanged(id) /\ UNCHANGED <<counters, bridge, time>>
    \/ RedrawTick /\ UNCHANGED <<counters, bridge, time>>

SpecKeys == InitEdit /\ [][NextKeys]_vars

\* The drag scenario: drag events on a drawn editor, with the frames and the
\* contents' interval events.
NextDrags ==
    \/ /\ gestures < MaxDrags
       /\ \E d \in DragEvents : AsGesture(Drag(d))
    \/ \E id \in Ids : IntervalChanged(id) /\ UNCHANGED <<counters, bridge, time>>
    \/ RedrawTick /\ UNCHANGED <<counters, bridge, time>>

SpecDrags == InitEdit /\ [][NextDrags]_vars

\* The bridge scenario: the host opens and closes the editor window, the
\* content manager and the scroller post their events, the user seeks.
NextBridge ==
    \/ OpenEditor /\ UNCHANGED counters
    \/ WindowLoaded /\ UNCHANGED counters
    \/ CloseEditor /\ UNCHANGED counters
    \/ WindowClosed /\ UNCHANGED counters
    \/ BridgeReset /\ UNCHANGED counters
    \/ \E list \in ContentLists \cup {<<>>} : SetContents(list) /\ UNCHANGED counters
    \/ \E t \in Times : PositionChanged(t) /\ UNCHANGED counters
    \/ \E t \in Times : UserSeek(t) /\ UNCHANGED counters
    \/ RedrawTick /\ UNCHANGED <<counters, bridge, time>>

SpecBridge == Init /\ [][NextBridge]_vars

\* Every operation, from the editor as constructed.
Next ==
    \/ NextView
    \/ \E d \in DragEvents : Drag(d) /\ UNCHANGED <<counters, bridge, time>>
    \/ \E c \in ClickEvents : MouseDown(c) /\ UNCHANGED <<counters, bridge, time>>
    \/ \E t \in TypedTexts \cup {textarea} : KeyUp(t) /\ UNCHANGED <<counters, bridge, time>>
    \/ \E key \in Keys : \E target \in Targets :
          KeyPress(key, target) /\ UNCHANGED <<counters, bridge, time>>
    \/ \E t \in KeyTimes : SetTime(t) /\ UNCHANGED <<counters, bridge>>

Spec == Init /\ [][Next]_vars

\* ------------------------------------------------------------------ claims
\* A frame that rebuilds: the only step that clears the dirty flag.
Rebuilds == dirty /\ ~dirty'

\* Number of rows of the content at position i (from 1) of the content list,
\* and the number of rows before its module row.
RowCount(i) == 1 + Len(InterpolatorNames(cdata[contents[i]]))

RECURSIVE RowOffset(_)
RowOffset(i) == IF i <= 1 THEN 0 ELSE RowOffset(i - 1) + RowCount(i - 1)

RowsFollowContents ==
    /\ Len(rows) = RowOffset(Len(contents) + 1)
    /\ \A i \in 1..Len(contents) :
          LET o == RowOffset(i)
              names == InterpolatorNames(cdata[contents[i]])
          IN  /\ rows[o + 1].type = "module"
              /\ rows[o + 1].moduleIdx = i - 1
              /\ \A k \in 1..Len(names) :
                    /\ rows[o + 1 + k].type = "property"
                    /\ rows[o + 1 + k].moduleIdx = i - 1
                    /\ rows[o + 1 + k].propertyName = names[k]

\* C1: after a frame that finds the dirty flag set, the rows are, for each
\* content of the content list in order, one module row followed by one
\* property row per interpolator of the content; each row's moduleIdx is the
\* index of its content and each property row carries its interpolator's name,
\* so the row count is the sum over the contents of 1 + number of interpolators.
C1_RowsAfterRebuild == [][Rebuilds => RowsFollowContents']_vars

C1_Witness ==
    /\ ~dirty /\ ticked
    /\ Len(contents) = 2
    /\ Len(rows) = 4
    /\ rowContents = contents
    /\ RowsFollowContents

\* C2: once a frame has run after the last addContent, removeContent or reset,
\* the rows are built from the content list as it stands (and are empty when
\* the list is).
C2_RowsFollowCalls ==
    ticked => /\ rowContents = contents
              /\ contents = <<>> => rows = <<>>

\* C3: the outline holds one node per row, in row order, and a node is
\* displayed if and only if its row is not hidden.
C3_OutlineMirrorsRows ==
    /\ Len(outline) = Len(rows)
    /\ \A i \in 1..Len(rows) :
          /\ outline[i].moduleIdx = rows[i].moduleIdx
          /\ outline[i].display <=> ~rows[i].hidden

C3_Witness ==
    /\ C3_OutlineMirrorsRows
    /\ \E i, j \in 1..Len(rows) :
          /\ rows[i].type = "property" /\ ~rows[i].hidden /\ outline[i].display
          /\ rows[j].type = "property" /\ rows[j].hidden /\ ~outline[j].display

\* The absolute position and the tag of a stop of a content with interval
\* [low, high].
StopVal(stop, low, high) ==
    CASE stop.position.tag = "abs" -> stop.position.n
      [] stop.position.tag = "+" -> low + stop.position.n
      [] stop.position.tag = "-" -> high - stop.position.n

StopTag(stop) ==
    CASE stop.position.tag = "abs" -> "absolute"
      [] stop.position.tag = "+" -> "start"
      [] stop.position.tag = "-" -> "end"

KeyframesFollowData ==
    \A r \in 1..Len(rows) :
        LET row == rows[r]
            id == At(contents, row.moduleIdx)
        IN  IF row.type = "module"
            THEN /\ Len(row.keyframes) = 2
                 /\ row.keyframes[1] = [val |-> Low(id), keyIdx |-> 0, type |-> "absolute"]
                 /\ row.keyframes[2] = [val |-> High(id), keyIdx |-> 1, type |-> "absolute"]
            ELSE LET stops == cdata[id].interpolators[row.propertyName]
                 IN  /\ Len(row.keyframes) = Len(stops)
                     /\ \A k \in 1..Len(stops) :
                           /\ row.keyframes[k].keyIdx = k - 1
                           /\ row.keyframes[k].val = StopVal(stops[k], Low(id), High(id))
                           /\ row.keyframes[k].type = StopTag(stops[k])

\* C4: every module row built by a rebuild has two keyframes, keyIdx 0 with
\* the content's low and keyIdx 1 with its high, both absolute; every property
\* row has one keyframe per stop of its interpolator, in stop order, with the
\* stop's index, absolute position and tag.
C4_KeyframesAfterRebuild == [][Rebuilds => KeyframesFollowData']_vars

C4_Witness ==
    /\ ~dirty /\ ticked /\ rowContents = contents
    /\ KeyframesFollowData
    /\ \E r \in 1..Len(rows) :
          /\ rows[r].type = "property"
          /\ Len(rows[r].keyframes) = 2
          /\ rows[r].keyframes[1].type = "end"
          /\ rows[r].keyframes[1].val = 0
          /\ rows[r].keyframes[2].type = "absolute"
    /\ \E r \in 1..Len(rows) :
          /\ rows[r].type = "property"
          /\ rows[r].keyframes[1].type = "start"
          /\ rows[r].keyframes[1].val = 1

VisibilityFollowsFlags ==
    \A r \in 1..Len(rows) :
        IF rows[r].type = "module"
        THEN ~rows[r].hidden
        ELSE rows[r].hidden <=> ~Expanded(expandedRows, rows[r].moduleIdx)

\* C5: after every rebuild and after every toggle, a property row is hidden if
\* and only if the expand flag at its moduleIdx is not set, and no module row
\* is hidden.
C5_VisibilityAfterRebuildAndToggle ==
    [][(Rebuilds \/ \E n \in 1..Len(outline) : OutlineClick(n))
          => VisibilityFollowsFlags']_vars

C5_Witness ==
    /\ VisibilityFollowsFlags
    /\ Len(expandedRows) = 2
    /\ \E i, j \in 1..Len(rows) :
          /\ rows[i].type = "property" /\ ~rows[i].hidden
          /\ rows[j].type = "property" /\ rows[j].hidden

\* The step is a drag that moves boundary keyframes of module rows only; the
\* step is a drag that moves one keyframe of a property row.
ModuleDrag ==
    /\ event'.kind = "drag"
    /\ \A i \in 1..Len(event'.d) : rows[event'.d[i].row].type = "module"

PropertyDrag ==
    /\ event'.kind = "drag"
    /\ Len(event'.d) = 1
    /\ rows[event'.d[1].row].type = "property"

\* The elements of drag d that move the boundary keyframe keyIdx.
Dragged(d, keyIdx) ==
    {i \in 1..Len(d) : rows[d[i].row].keyframes[d[i].key].keyIdx = keyIdx}

OthersUnchanged(id) == \A o \in Ids \ {id} : cdata'[o] = cdata[o]

\* C6: a drag of boundary keyframes of a module row writes the value of the
\* keyframe with keyIdx 0 to low and of the one with keyIdx 1 to high in the
\* data of the content at the row's moduleIdx; the boundary not dragged, the
\* interpolators and the data of every other content are unchanged, and
\* setData runs once on that content per dragged element.
C6_ModuleDragRetimesBoundary ==
    [][ModuleDrag =>
          LET d == event'.d
              idx == rows[d[1].row].moduleIdx
          IN  IF ContentFound(idx) /\ cdata[At(contents, idx)] # NoData
              THEN LET id == At(contents, idx)
                   IN  /\ \A i \in Dragged(d, 0) : cdata'[id].low = d[i].val
                       /\ Dragged(d, 0) = {} => cdata'[id].low = cdata[id].low
                       /\ \A i \in Dragged(d, 1) : cdata'[id].high = d[i].val
                       /\ Dragged(d, 1) = {} => cdata'[id].high = cdata[id].high
                       /\ DOMAIN cdata'[id] = DOMAIN cdata[id]
                       /\ cdata'[id].interpolators = cdata[id].interpolators
                       /\ OthersUnchanged(id)
                       /\ calls' = [i \in 1..Len(d) |-> id]
              ELSE cdata' = cdata /\ calls' = <<>>]_vars

C6_Witness ==
    /\ gestures = 1 /\ keyUps = 0
    /\ calls = <<1>>
    /\ updateButtonHandler.type = "module"
    /\ cdata[1].low = 0
    /\ cdata[1].high = InitData(1).high
    /\ cdata[1].interpolators = InitData(1).interpolators
    /\ cdata[2] = InitData(2)

\* C7: a drag of a keyframe of a property row rewrites the position of the
\* stop at the keyframe's keyIdx in the named property of the content at the
\* row's moduleIdx, by the keyframe's tag: the value itself for absolute, "+"
\* and value - content.low for start, "-" and content.high - value for end;
\* the stop's value, the other stops and properties, low and high and the
\* other contents are unchanged.
C7_PropertyDragRewritesPosition ==
    [][PropertyDrag =>
          LET d == event'.d
              row == rows[d[1].row]
              key == row.keyframes[d[1].key]
              idx == row.moduleIdx
              name == row.propertyName
              v == d[1].val
          IN  IF /\ ContentFound(idx)
                 /\ cdata[At(contents, idx)] # NoData
                 /\ name \in DOMAIN cdata[At(contents, idx)].interpolators
                 /\ Has(cdata[At(contents, idx)].interpolators[name], key.keyIdx)
              THEN LET id == At(contents, idx)
                       old == cdata[id]
                       new == cdata'[id]
                       k == key.keyIdx + 1
                   IN  /\ new.interpolators[name][k].position =
                              CASE key.type = "absolute" -> [tag |-> "abs", n |-> v]
                                [] key.type = "start" -> [tag |-> "+", n |-> v - old.low]
                                [] key.type = "end" -> [tag |-> "-", n |-> old.high - v]
                       /\ new.interpolators[name][k].value = old.interpolators[name][k].value
                       /\ Len(new.interpolators[name]) = Len(old.interpolators[name])
                       /\ \A j \in 1..Len(old.interpolators[name]) \ {k} :
                              new.interpolators[name][j] = old.interpolators[name][j]
                       /\ DOMAIN new.interpolators = DOMAIN old.interpolators
                       /\ \A p \in DOMAIN old.interpolators \ {name} :
                              new.interpolators[p] = old.interpolators[p]
                       /\ new.low = old.low /\ new.high = old.high
                       /\ OthersUnchanged(id)
                       /\ calls' = <<id>>
              ELSE cdata' = cdata /\ calls' = <<>>]_vars

C7_Witness ==
    /\ gestures = 1 /\ keyUps = 0
    /\ calls = <<1>>
    /\ updateButtonHandler.type = "property"
    /\ cdata[1].low = 1 /\ cdata[1].high = 2
    /\ cdata[1].interpolators.x[1] = [position |-> [tag |-> "+", n |-> 1], value |-> 0]
    /\ cdata[1].interpolators.x[2] = InitData(1).interpolators.x[2]
    /\ cdata[1].interpolators.y = InitData(1).interpolators.y

\* The step is a key-up on a text that is valid JSON.
JsonKeyUp == event'.kind = "keyup" /\ event'.t.kind = "json"

\* C8: a key-up with valid JSON while a module is selected merges the typed
\* object shallowly into the data of the module: every typed key takes the
\* typed value, every other key keeps its value, and setData is not called
\* when the merged data serialises as the current data does.
C8_ModuleEditMergesShallowly ==
    [][(JsonKeyUp /\ updateButtonHandler.type = "module") =>
              LET t == event'.t
                  idx == updateButtonHandler.moduleIdx
              IN  (ContentFound(idx) /\ cdata[At(contents, idx)] # NoData) =>
                      LET id == At(contents, idx)
                          old == cdata[id]
                          new == cdata'[id]
                      IN  /\ DOMAIN new = DOMAIN old \cup DOMAIN t.obj
                          /\ \A k \in DOMAIN t.obj : new[k] = t.obj[k]
                          /\ \A k \in DOMAIN old \ DOMAIN t.obj : new[k] = old[k]
                          /\ (\A k \in DOMAIN t.obj : k \in DOMAIN old /\ old[k] = t.obj[k])
                                 => calls' = <<>>
                          /\ OthersUnchanged(id)]_vars

C8_Witness ==
    /\ keyUps = 1
    /\ updateButtonHandler.type = "module"
    /\ updateButtonHandler.moduleIdx = 0
    /\ contents[1] = 1
    /\ textarea = JsonText([high |-> 1])
    /\ calls = <<1>>
    /\ cdata[1].high = 1
    /\ cdata[1].low = InitData(1).low
    /\ cdata[1].interpolators = InitData(1).interpolators

\* C9: a key-up with valid JSON while a property keyframe is selected merges
\* the typed object into the stop at the selected keyIdx of the selected
\* property of the content at the selected moduleIdx; every other stop, every
\* other property, low and high and the other contents are unchanged.
C9_KeyframeEditMergesIntoStop ==
    [][(JsonKeyUp /\ updateButtonHandler.type = "property") =>
              LET t == event'.t
                  h == updateButtonHandler
                  idx == h.moduleIdx
              IN  (/\ ContentFound(idx)
                   /\ cdata[At(contents, idx)] # NoData
                   /\ h.propertyName \in DOMAIN cdata[At(contents, idx)].interpolators
                   /\ Has(cdata[At(contents, idx)].interpolators[h.propertyName], h.keyIdx)) =>
                      LET id == At(contents, idx)
                          old == cdata[id]
                          new == cdata'[id]
                          k == h.keyIdx + 1
                          oldStop == old.interpolators[h.propertyName][k]
                          newStop == new.interpolators[h.propertyName][k]
                      IN  /\ DOMAIN newStop = DOMAIN oldStop \cup DOMAIN t.obj
                          /\ \A f \in DOMAIN t.obj : newStop[f] = t.obj[f]
                          /\ \A f \in DOMAIN oldStop \ DOMAIN t.obj : newStop[f] = oldStop[f]
                          /\ Len(new.interpolators[h.propertyName]) =
                                 Len(old.interpolators[h.propertyName])
                          /\ \A j \in 1..Len(old.interpolators[h.propertyName]) \ {k} :
                                 new.interpolators[h.propertyName][j] =
                                     old.interpolators[h.propertyName][j]
                          /\ DOMAIN new.interpolators = DOMAIN old.interpolators
                          /\ \A p \in DOMAIN old.interpolators \ {h.propertyName} :
                                 new.interpolators[p] = old.interpolators[p]
                          /\ new.low = old.low /\ new.high = old.high
                          /\ OthersUnchanged(id)]_vars

C9_Witness ==
    /\ keyUps = 1
    /\ updateButtonHandler.type = "property"
    /\ updateButtonHandler.propertyName = "x"
    /\ updateButtonHandler.keyIdx = 1
    /\ textarea = JsonText([position |-> Abs(0)])
    /\ calls = <<1>>
    /\ cdata[1].interpolators.x[2] = [position |-> Abs(0), value |-> 1]
    /\ cdata[1].interpolators.x[1] = InitData(1).interpolators.x[1]
    /\ cdata[1].interpolators.y = InitData(1).interpolators.y

\* C10: a drag or a click on a row is applied to the content the row was built
\* from, or is rejected: setData runs on no other content, and a click on a
\* keyframe or group of a module row loads the data of no other content.
C10_GestureHitsBuiltContent ==
    [][/\ event'.kind = "drag" =>
              \A i \in 1..Len(calls') :
                  calls'[i] = At(rowContents, rows[event'.d[1].row].moduleIdx)
       /\ (/\ event'.kind = "click"
           /\ event'.c.target
           /\ rows[event'.c.row].type = "module"
           /\ event'.c.key # 0 \/ event'.c.group) =>
              \/ UNCHANGED ui
              \/ textarea' =
                     Stringify(cdata[At(rowContents, rows[event'.c.row].moduleIdx)])]_vars

\* C14: a key-up whose text is not valid JSON, while a key-up handler is
\* installed, changes no content data, calls setData on no content and puts
\* the parser's message in the error element; a key-up whose text is valid
\* JSON finds the error element emptied.
C14_InvalidJsonReported ==
    [][(event'.kind = "keyup" /\ updateButtonHandler # NoHandler) =>
          IF event'.t.kind # "json"
          THEN cdata' = cdata /\ calls' = <<>> /\ errorMsg' = "SyntaxError"
          ELSE errorMsg' = ""]_vars

\* C15: a text edit that writes content data writes the element whose JSON
\* was last loaded into the text box: the selected module, or the selected
\* stop of the selected property of the selected module.  (The text box has
\* one handler slot, which _updateHandler replaces.)
C15_EditHitsSelectedElement ==
    [][(JsonKeyUp /\ updateButtonHandler # NoHandler /\ calls' # <<>>) =>
          /\ \A i \in 1..Len(calls') : calls'[i] = selected.id
          /\ updateButtonHandler.type = selected.type
          /\ updateButtonHandler.type = "property" =>
                /\ updateButtonHandler.propertyName = selected.propertyName
                /\ At(cdata[selected.id].interpolators[selected.propertyName],
                      updateButtonHandler.keyIdx) = selected.stop]_vars

\* The click c hits no element (without alt, or not on a property row), or hits
\* a module row outside any keyframe or group.
EmptyHit(c) ==
    \/ ~c.target /\ (~c.alt \/ rows[c.row].type # "property")
    \/ c.target /\ rows[c.row].type = "module" /\ c.key = 0 /\ ~c.group

\* C16: a click that hits nothing empties the text box, and a key-up that
\* follows it changes no content data and calls setData on no content,
\* whatever the text.
C16_EmptyClickSelectsNothing ==
    [][/\ (event'.kind = "click" /\ EmptyHit(event'.c)) => textarea' = EmptyText
       /\ (event.kind = "click" /\ EmptyHit(event.c) /\ event'.kind = "keyup") =>
              cdata' = cdata /\ calls' = <<>>]_vars

\* The click c is an alt-click that hits no element on a property row.
AddClick(c) == ~c.target /\ c.alt /\ rows[c.row].type = "property"

\* C17: an alt-click that hits no element on a property row appends the stop
\* {position: clicked time, value: 0} to the list of the row's property in the
\* data of the content at the row's moduleIdx, creating the list when absent,
\* and calls setData once; the stops there keep their order and values, and
\* nothing else changes.  Any other click adds no stop to any list.
C17_AltClickAppendsStop ==
    [][event'.kind = "click" =>
          LET c == event'.c
              idx == rows[c.row].moduleIdx
          IN  IF AddClick(c)
              THEN IF ContentFound(idx) /\ cdata[At(contents, idx)] # NoData
                   THEN LET id == At(contents, idx)
                            name == rows[c.row].propertyName
                            old == cdata[id].interpolators
                            new == cdata'[id].interpolators
                            stops == IF name \in DOMAIN old THEN old[name] ELSE <<>>
                        IN  /\ DOMAIN new = DOMAIN old \cup {name}
                            /\ new[name] =
                                   Append(stops, [position |-> [tag |-> "abs", n |-> c.val],
                                                  value |-> 0])
                            /\ \A p \in DOMAIN old \ {name} : new[p] = old[p]
                            /\ cdata'[id].low = cdata[id].low
                            /\ cdata'[id].high = cdata[id].high
                            /\ OthersUnchanged(id)
                            /\ calls' = <<id>>
                   ELSE cdata' = cdata /\ calls' = <<>>
              ELSE \A id \in Ids :
                       \A p \in DOMAIN DataInterpolators(cdata'[id]) :
                           /\ p \in DOMAIN DataInterpolators(cdata[id])
                           /\ Len(cdata'[id].interpolators[p]) <=
                                  Len(cdata[id].interpolators[p])]_vars

C17_Witness ==
    /\ event.kind = "click"
    /\ ~event.c.target /\ event.c.alt /\ event.c.val = 2
    /\ calls = <<1>>
    /\ cdata[1].interpolators.y =
           <<InitData(1).interpolators.y[1], [position |-> Abs(2), value |-> 0]>>
    /\ cdata[1].interpolators.x = InitData(1).interpolators.x

\* The click c hits a keyframe of a property row.
KeyframeClick(c) == c.target /\ rows[c.row].type = "property" /\ c.key # 0

editorState == <<contents, expandedRows, rows, outline, dirty, subscribed, cdata, ui>>

NoDuplicates(list) == \A i, j \in 1..Len(list) : list[i] = list[j] => i = j

\* C19: the content list never holds a content twice and the rows hold one
\* module row per content they were built from; addContent of a content in
\* the list and removeContent of a content not in the list change nothing.
C19_NoContentTwice ==
    [][/\ NoDuplicates(contents')
       /\ NoDuplicates(rowContents')
       /\ Cardinality({r \in 1..Len(rows') : rows'[r].type = "module"}) = Len(rowContents')
       /\ \A id \in Ids :
              /\ (InContents(id) /\ AddContent(id)) => UNCHANGED editorState
              /\ (~InContents(id) /\ RemoveContent(id)) => UNCHANGED editorState]_vars

C19_Witness ==
    /\ contents = <<1, 2>>
    /\ rowContents = <<1, 2>>
    /\ subscribed = [id \in Ids |-> 1]
    /\ ~ticked
    /\ ~dirty

\* Position of content id in a list, from 0.
PlaceIn(list, id) == (CHOOSE i \in 1..Len(list) : list[i] = id) - 1

\* C20: removeContent of a content in the list leaves every remaining content
\* with the expand flag it had, at the index the content now has.
C20_FlagsFollowContents ==
    [][\A id \in Ids : (InContents(id) /\ RemoveContent(id)) =>
          \A i \in 1..Len(contents') :
              Expanded(expandedRows', i - 1) =
                  Expanded(expandedRows, PlaceIn(contents, contents'[i]))]_vars

C20_Witness ==
    /\ contents = <<2>>
    /\ rowContents = <<1, 2>>
    /\ Expanded(expandedRows, 0)
    /\ dirty
    /\ ~ticked
    /\ subscribed = [id \in Ids |-> IF id = 2 THEN 1 ELSE 0]

\* C11: while the editor window is open, a positionChanged(t) of the scroller
\* results in setTime(t) on the editor: the bridge calls it once and the
\* editor's time is t.
C11_TimeFollowsScroller ==
    [][(event'.kind = "positionChanged" /\ editorWindow = "open") =>
          setTimes' = <<event'.t>> /\ time' = event'.t]_vars

\* C12: after contentsChanged delivers a list while the editor window is
\* open, the editor's content list holds the contents of the list and no
\* other content.
C12_ContentsFollowManager ==
    [][(event'.kind = "contentsChanged" /\ editorWindow = "open") =>
          {contents'[i] : i \in 1..Len(contents')} =
              {event'.list[i] : i \in 1..Len(event'.list)}]_vars

\* C13: a time set through Editor.setTime posts no seek, and a seek of the
\* user causes one setPosition on the scroller, with the time sought: a step
\* calls setPosition once if it is a user seek and not at all otherwise.
C13_OneSetPositionPerSeek ==
    [][IF event'.kind = "seek"
       THEN setPositions' = <<event'.t>>
       ELSE setPositions' = <<>>]_vars

\* ------------------------------------------------------------------ C21
\* The flags of two flag arrays agree at every index (an absent flag reads as
\* a cleared one).
SameFlags(e1, e2) ==
    \A i \in 0..(NumContents + 1) : Expanded(e1, i) <=> Expanded(e2, i)

\* C21: toggling a module's group is an involution: a click on an outline node
\* of a module directly followed by another click on a node of the same module
\* restores the expand flags and the hidden state of every row; and a single
\* toggle changes the hidden state of no row of another module.
C21_ToggleIsInvolution ==
    [][/\ (event.kind = "toggle" /\ event'.kind = "toggle"
            /\ event'.moduleIdx = event.moduleIdx)
           => /\ SameFlags(expandedRows', event.flags)
              /\ [i \in 1..Len(rows') |-> rows'[i].hidden] = event.hidden
       /\ event'.kind = "toggle"
           => \A i \in 1..Len(rows) :
                 rows[i].moduleIdx # event'.moduleIdx
                    => rows'[i].hidden = rows[i].hidden]_vars

\* ------------------------------------------------------------------ C22
\* C22: the redraw is driven only by the dirty flag. A frame that finds the
\* flag clear changes neither the rows, the outline nor the expand flags; a
\* frame that finds it set rebuilds the rows from the content list and the
\* outline from the rows and clears the flag; addContent of a new content,
\* removeContent of a present content and intervalChanged of a held content
\* set the flag, and nothing but a frame clears it, so each of them is
\* followed by a rebuild on the next frame.
C22_RedrawFollowsDirtyFlag ==
    [][/\ (RedrawTick /\ ~dirty)
           => UNCHANGED <<rows, outline, expandedRows, dirty>>
       /\ (RedrawTick /\ dirty)
           => /\ ~dirty'
              /\ rowContents' = contents
              /\ RowsFollowContents'
              /\ C3_OutlineMirrorsRows'
              /\ UNCHANGED expandedRows
       /\ (\E id \in Ids :
              \/ ~InContents(id) /\ AddContent(id)
              \/ InContents(id) /\ RemoveContent(id)
              \/ InContents(id) /\ IntervalChanged(id))
           => dirty'
       /\ (dirty /\ ~dirty') => RedrawTick]_vars

\* A frame has rebuilt the rows of a content whose data the host had changed.
C22_Witness ==
    /\ ~dirty /\ ticked
    /\ contents = <<1>> /\ rowContents = <<1>>
    /\ cdata[1] # InitData(1) /\ cdata[1] # NoData
    /\ Len(rows) = 2
    /\ rows[2].propertyName = "y"
    /\ rows[1].keyframes[1].val = 1 /\ rows[1].keyframes[2].val = 1

\* ------------------------------------------------------------------ C23
\* C23: when openEditor completes after opening a new window, the editor's
\* time is the scroller's current position and the editor holds every content
\* of the most recent contentsChanged list received since construction or the
\* last reset, also when that list arrived before any editor was open.
C23_OpenLoadsTimeAndContents ==
    [][(editorWindow # "open" /\ editorWindow' = "open")
          => /\ time' = position'
             /\ received'.defined
                   => \A i \in 1..Len(received'.list) :
                         \E j \in 1..Len(contents') : contents'[j] = received'.list[i]]_vars

\* The window has just loaded with a list of two contents received before,
\* at a scroller position other than the initial one.
C23_Witness ==
    /\ editorWindow = "open" /\ bridgeEditor
    /\ event = NoEvent /\ setTimes = <<1>>
    /\ position = 1 /\ time = 1
    /\ received = List(<<2, 1>>)
    /\ contents = <<2, 1>>
    /\ rows = <<>> /\ dirty

\* ------------------------------------------------------------------ C24
\* C24: openEditor opens at most one editor per open window. A call made while
\* the window is open only focuses it; whatever the interleaving of openEditor
\* calls (a second call made while the first still waits for the window to
\* load included), the bridge's seek handler is attached to the editor at most
\* once, so one seek of the user causes one setPosition.
C24_OneEditorPerWindow ==
    [][/\ (editorWindow = "open" /\ OpenEditor)
           => UNCHANGED <<opening, seekAttached, bridgeEditor, contents, time>>
       /\ seekAttached' <= 1
       /\ event'.kind = "seek" => Len(setPositions') = 1]_vars

\* ------------------------------------------------------------ C25 .. C27
\* The shift of an arrow key pressed outside the text box, 0 for any other
\* key press.
ShiftOf(e) ==
    IF e.target = "textarea" THEN 0
    ELSE CASE e.key = "ArrowRight" -> 100
           [] e.key = "ArrowLeft" -> -100
           [] OTHER -> 0

Max(a, b) == IF a >= b THEN a ELSE b

\* What the claim says a time v becomes under shift s at current time t.
TimeAfter(v, s, t) == IF v > t THEN Max(v + s, t) ELSE v

\* The contents of the list that have data.
WithData == {id \in Ids : InContents(id) /\ cdata[id] # NoData}

\* The numeric times of data d: low, high and the numeric stop positions, each
\* named by its place in the data.
TimeSlots(d) ==
    {<<"low", 0>>, <<"high", 0>>} \cup
    {s \in (DOMAIN d.interpolators) \X (1..MaxStops) :
        /\ s[2] <= Len(d.interpolators[s[1]])
        /\ d.interpolators[s[1]][s[2]].position.tag = "abs"}

TimeAt(d, slot) ==
    IF slot[1] = "low" THEN d.low
    ELSE IF slot[1] = "high" THEN d.high
    ELSE d.interpolators[slot[1]][slot[2]].position.n

\* C25: ArrowRight and ArrowLeft pressed outside the text box shift by +100
\* and -100 every low, high and numeric stop position strictly greater than
\* the current time, v becoming max(v + shift, current time); values at or
\* before the current time, edge-relative positions and stop values are left
\* unchanged, and a key press whose target is the text box changes nothing.
C25_ArrowKeysShiftLaterTimes ==
    [][event'.kind = "keydown" =>
          LET s == ShiftOf(event')
          IN  /\ \A id \in Ids \ WithData : cdata'[id] = cdata[id]
              /\ s = 0 => cdata' = cdata
              /\ \A id \in WithData :
                    LET d == cdata[id]
                        e == cdata'[id]
                    IN  /\ DOMAIN e = DOMAIN d
                        /\ e.low = TimeAfter(d.low, s, time)
                        /\ e.high = TimeAfter(d.high, s, time)
                        /\ DOMAIN e.interpolators = DOMAIN d.interpolators
                        /\ \A p \in DOMAIN d.interpolators :
                              /\ Len(e.interpolators[p]) = Len(d.interpolators[p])
                              /\ \A k \in 1..Len(d.interpolators[p]) :
                                    LET a == d.interpolators[p][k]
                                        b == e.interpolators[p][k]
                                    IN  /\ b.value = a.value
                                        /\ b.position.tag = a.position.tag
                                        /\ b.position.n =
                                              IF a.position.tag = "abs"
                                              THEN TimeAfter(a.position.n, s, time)
                                              ELSE a.position.n]_vars

\* ArrowLeft has clamped a high at the current time and left a low before it
\* alone, next to an edge-relative stop.
C25_Witness ==
    /\ event.kind = "keydown" /\ event.key = "ArrowLeft" /\ event.target = "body"
    /\ time = 1
    /\ InContents(1)
    /\ event.before[1].low = 1 /\ event.before[1].high = 102
    /\ cdata[1].low = 1 /\ cdata[1].high = 2
    /\ cdata[1].interpolators.y[1].position = Abs(1)
    /\ cdata[1].interpolators.x[1].position = FromStart(0)

\* C26: a time shift never reorders times: for the low, high and numeric stop
\* positions a, b of one content's data, a <= b before the key press implies
\* a' <= b' after it (so low <= high is preserved), and no value that was
\* after the current time ends up before it.
C26_ShiftKeepsOrder ==
    [][event'.kind = "keydown" =>
          \A id \in WithData :
              /\ TimeSlots(cdata'[id]) = TimeSlots(cdata[id])
              /\ \A a, b \in TimeSlots(cdata[id]) :
                    TimeAt(cdata[id], a) <= TimeAt(cdata[id], b)
                       => TimeAt(cdata'[id], a) <= TimeAt(cdata'[id], b)
              /\ \A a \in TimeSlots(cdata[id]) :
                    TimeAt(cdata[id], a) > time => TimeAt(cdata'[id], a) >= time]_vars

\* ArrowLeft has brought a high down to the current time, where the low and
\* a stop position already were: the order is kept by the clamp alone.
C26_Witness ==
    /\ event.kind = "keydown" /\ event.key = "ArrowLeft" /\ event.target = "body"
    /\ InContents(1)
    /\ event.time = 101 /\ time = 101
    /\ event.before[1].low = 101 /\ event.before[1].high = 102
    /\ cdata[1].low = 101 /\ cdata[1].high = 101
    /\ cdata[1].interpolators.y[1].position = Abs(101)

\* C27: at an unchanged current time, ArrowRight directly followed by
\* ArrowLeft restores every low, high and stop position.
C27_RightThenLeftRestores ==
    [][(/\ event.kind = "keydown" /\ event.key = "ArrowRight" /\ event.target # "textarea"
        /\ event'.kind = "keydown" /\ event'.key = "ArrowLeft" /\ event'.target # "textarea"
        /\ event'.time = event.time)
          => cdata' = event.before]_vars

\* ArrowRight then ArrowLeft have run on data with a time after the current
\* time, and the data is what it was.
C27_Witness ==
    /\ event.kind = "keydown" /\ event.key = "ArrowLeft" /\ event.target = "body"
    /\ gestures = 2
    /\ time = 0
    /\ InContents(1)
    /\ event.before[1].low = 101 /\ event.before[1].high = 102
    /\ cdata[1] = InitData(1)

\* ------------------------------------------------------------------ C28
\* The error that applying text t through handler h to a found content raises,
\* "" if it raises none.
EditErrorOf(h, t) ==
    LET d == cdata[At(contents, h.moduleIdx)]
    IN  IF t.kind # "json" THEN "SyntaxError"
        ELSE IF d = NoData THEN "Module data not yet present"
        ELSE IF h.type # "property" THEN ""
        ELSE IF h.propertyName \notin DOMAIN DataInterpolators(d) THEN "Property not found"
        ELSE IF ~Has(DataInterpolators(d)[h.propertyName], h.keyIdx) THEN "Keyframe not found"
        ELSE ""

\* C28: every error raised while a text-box edit is applied to a found
\* content (invalid JSON, 'Module data not yet present', 'Property not found',
\* 'Keyframe not found') is reported in the error element and leaves the data
\* of every content unchanged.
C28_EditErrorsReported ==
    [][(/\ event'.kind = "keyup"
        /\ updateButtonHandler # NoHandler
        /\ ContentFound(updateButtonHandler.moduleIdx)
        /\ EditErrorOf(updateButtonHandler, event'.t) # "")
          => /\ errorMsg' = EditErrorOf(updateButtonHandler, event'.t)
             /\ cdata' = cdata
             /\ calls' = <<>>]_vars

\* ------------------------------------------------------------------ C29
\* The content is in the list at the rebuild and was not in the list the rows
\* were built from before: it was added since.
NewlyAdded(id) ==
    /\ InContents(id)
    /\ \A j \in 1..Len(rowContents) : rowContents[j] # id

\* C29: a newly added content starts collapsed: at the first rebuild after
\* its addContent all its property rows are hidden, whatever addContent,
\* removeContent, reset, frames and outline clicks came before; and no expand
\* flag is ever set at an index that holds no content.
C29_NewContentStartsCollapsed ==
    [][/\ Rebuilds =>
             \A r \in 1..Len(rows') :
                 (rows'[r].type = "property" /\ NewlyAdded(At(contents, rows'[r].moduleIdx)))
                    => rows'[r].hidden
       /\ \A i \in 0..(NumContents + 1) :
             Expanded(expandedRows', i) => Has(contents', i)]_vars

\* ------------------------------------------------------------------ C30
\* C30: the edge-relative position a drag writes is always well formed, '+'
\* or '-' followed by a non-negative number (content.low <= value for a stop
\* relative to the start, value <= content.high for one relative to the end,
\* when it is written), for every drag event, one that moves a module
\* boundary and property keyframes of the same module together included.
C30_DragWritesWellFormedPosition ==
    [][event'.kind = "drag" =>
          \A id \in Ids :
              (cdata[id] # NoData /\ cdata'[id] # NoData) =>
                  \A p \in DOMAIN DataInterpolators(cdata'[id]) \cap
                            DOMAIN DataInterpolators(cdata[id]) :
                      \A k \in 1..Len(cdata'[id].interpolators[p]) :
                          LET new == cdata'[id].interpolators[p][k].position
                          IN  (/\ k <= Len(cdata[id].interpolators[p])
                               /\ new # cdata[id].interpolators[p][k].position
                               /\ new.tag # "abs")
                                 => new.n >= 0]_vars

\* ------------------------------------------------------------------ C31
\* C31: the editor is subscribed to intervalChanged of exactly the contents
\* of its content list: after any sequence of addContent, removeContent and
\* reset a content is subscribed if and only if it is in the list, so an
\* intervalChanged of a content that has left the editor does not mark the
\* editor dirty.
C31_SubscribedIffInList ==
    [][/\ \A id \in Ids : (subscribed'[id] > 0) <=> (\E j \in 1..Len(contents') : contents'[j] = id)
       /\ \A id \in Ids : ~(~InContents(id) /\ ~dirty /\ IntervalChanged(id))]_vars
====
